---------------------------- MODULE Spec2Model ----------------------------
(***************************************************************************)
(* Model of the Huawei OBS plugin tools: the URL resolver (_parse_url of   *)
(* the single and the batch download tool) and the object-key builder      *)
(* (_generate_object_key of the single and the batch upload tool), the     *)
(* MIME type the download tools attach to a file, and the course of one    *)
(* invocation of each tool (checks, OBS client, storage calls, results).   *)
(*                                                                         *)
(* A Python str is modelled as a sequence of one-character strings, so     *)
(* that startswith/endswith/split/lstrip/lower and urlparse are computed   *)
(* character by character, as the code computes them.                      *)
(***************************************************************************)
EXTENDS Naturals, Sequences, FiniteSets, TLC

VARIABLES
    pc,              \* "idle", or the operation that ran last
    endpoint,        \* runtime.credentials["endpoint"]
    bucket,          \* runtime.credentials["bucket"]
    url,             \* the url argument of _parse_url
    parse_res,       \* outcome of _parse_url (pair or raised error)
    file,            \* the file object: its filename and name attributes
    filename,        \* tool parameter "filename" (single upload only)
    directory,       \* tool parameter "directory"
    filename_mode,   \* tool parameter "filename_mode"
    directory_mode,  \* tool parameter "directory_mode"
    clock,           \* wall clock read by time.time() and datetime.now()
    object_key,      \* value returned by _generate_object_key
    file_url,        \* file_url built by the upload tool after putObject
    content_type,    \* content type reported by the storage or HTTP response
    file_name,       \* file_name of a downloaded file
    file_extension,  \* file_extension of a downloaded file
    mime_type,       \* mime_type put in the blob message
    tool,            \* the tool whose _invoke is running, or "none"
    access_key_id,   \* runtime.credentials["access_key_id"]
    secret_access_key, \* runtime.credentials["secret_access_key"]
    file_urls_str,   \* tool parameter "file_urls" (batch download)
    file_urls,       \* the URLs after split(";") and strip()
    files,           \* tool parameter "files" (batch upload)
    results,         \* the results list of a batch tool
    blobs,           \* blob messages yielded so far
    calls,           \* storage/HTTP calls made so far, one entry per call
    client,          \* the OBS client: "none", "open" or "closed"
    closes,          \* number of client.close() calls
    error,           \* the error raised by the invocation, or of the last item
    summary,         \* success_count and error_count of a finished batch
    optional_credentials \* runtime.credentials "directory" and "filename"

vars == << pc, endpoint, bucket, url, parse_res, file, filename, directory,
           filename_mode, directory_mode, clock, object_key, file_url,
           content_type, file_name, file_extension, mime_type,
           tool, access_key_id, secret_access_key, file_urls_str, file_urls,
           files, results, blobs, calls, client, closes, error, summary,
           optional_credentials >>

parseVars == << url, parse_res >>
uploadVars == << file, filename, directory, filename_mode, directory_mode,
                 clock, object_key, file_url >>
mimeVars == << content_type, file_name, file_extension, mime_type >>
invokeVars == << tool, access_key_id, secret_access_key, file_urls_str,
                 file_urls, files, results, blobs, calls, client, closes,
                 error, summary, optional_credentials >>

-----------------------------------------------------------------------------
(* Python str primitives on character sequences                            *)

Empty == << >>

MinOf(S) == CHOOSE x \in S : \A y \in S : x <= y
MaxOf(S) == CHOOSE x \in S : \A y \in S : x >= y

\* s.startswith(p)
StartsWith(s, p) == Len(s) >= Len(p) /\ SubSeq(s, 1, Len(p)) = p

\* s.endswith(p)
EndsWith(s, p) ==
    Len(s) >= Len(p) /\ SubSeq(s, Len(s) - Len(p) + 1, Len(s)) = p

\* s.find(c) + 1 for a single character c: 0 when c does not occur
Find(s, c) ==
    LET I == { i \in DOMAIN s : s[i] = c }
    IN  IF I = {} THEN 0 ELSE MinOf(I)

\* s.rfind(c) + 1: 0 when c does not occur
RFind(s, c) ==
    LET I == { i \in DOMAIN s : s[i] = c }
    IN  IF I = {} THEN 0 ELSE MaxOf(I)

\* s[i-1:], the suffix starting at 1-based position i
From(s, i) == SubSeq(s, i, Len(s))

\* s.lstrip(c)
LStrip(s, c) ==
    LET I == { i \in DOMAIN s : s[i] # c }
    IN  IF I = {} THEN Empty ELSE From(s, MinOf(I))

UpperLetters ==
    << "A", "B", "C", "D", "E", "F", "G", "H", "I", "J", "K", "L", "M",
       "N", "O", "P", "Q", "R", "S", "T", "U", "V", "W", "X", "Y", "Z" >>
LowerLetters ==
    << "a", "b", "c", "d", "e", "f", "g", "h", "i", "j", "k", "l", "m",
       "n", "o", "p", "q", "r", "s", "t", "u", "v", "w", "x", "y", "z" >>
Digits == << "0", "1", "2", "3", "4", "5", "6", "7", "8", "9" >>

Range(f) == { f[i] : i \in DOMAIN f }

UpperSet == Range(UpperLetters)
AlphaSet == Range(UpperLetters) \cup Range(LowerLetters)

LowerChar(c) ==
    IF c \in UpperSet
    THEN LowerLetters[CHOOSE i \in DOMAIN UpperLetters : UpperLetters[i] = c]
    ELSE c

\* s.lower()
Lower(s) == [ i \in DOMAIN s |-> LowerChar(s[i]) ]

IsAsciiAlpha(c) == c \in AlphaSet

\* the literals the code compares against
HttpPrefix == << "h", "t", "t", "p", ":", "/", "/" >>
HttpsPrefix == << "h", "t", "t", "p", "s", ":", "/", "/" >>

-----------------------------------------------------------------------------
(* urllib.parse.urlparse, as called by _parse_url.  Whitespace stripping   *)
(* and the IPv6 bracket check of urlsplit act on characters outside the    *)
(* alphabets explored here and are left out.                               *)

SchemeChars ==
    Range(UpperLetters) \cup Range(LowerLetters) \cup Range(Digits)
        \cup { "+", "-", "." }

\* urllib.parse.uses_params
UsesParams ==
    { Empty,
      << "f", "t", "p" >>,
      << "h", "d", "l" >>,
      << "p", "r", "o", "s", "p", "e", "r", "o" >>,
      << "h", "t", "t", "p" >>,
      << "i", "m", "a", "p" >>,
      << "h", "t", "t", "p", "s" >>,
      << "s", "h", "t", "t", "p" >>,
      << "r", "t", "s", "p" >>,
      << "r", "t", "s", "p", "u" >>,
      << "s", "i", "p" >>,
      << "s", "i", "p", "s" >>,
      << "m", "m", "s" >>,
      << "s", "f", "t", "p" >>,
      << "t", "e", "l" >> }

\* urlsplit: the scheme, when the text before the first ':' is a valid one
SplitScheme(u) ==
    LET i == Find(u, ":")
    IN  IF /\ i > 1
           /\ IsAsciiAlpha(u[1])
           /\ \A j \in 1..(i - 1) : u[j] \in SchemeChars
        THEN [ scheme |-> Lower(SubSeq(u, 1, i - 1)), rest |-> From(u, i + 1) ]
        ELSE [ scheme |-> Empty, rest |-> u ]

\* urlsplit: _splitnetloc(url, 2) when the rest starts with '//'
SplitNetloc(u) ==
    IF StartsWith(u, << "/", "/" >>)
    THEN LET D == { i \in 3..Len(u) : u[i] \in { "/", "?", "#" } }
             delim == IF D = {} THEN Len(u) + 1 ELSE MinOf(D)
         IN  [ netloc |-> SubSeq(u, 3, delim - 1), rest |-> From(u, delim) ]
    ELSE [ netloc |-> Empty, rest |-> u ]

\* s.split(c, 1) when c occurs in s, else (s, '')
SplitFirst(s, c) ==
    LET i == Find(s, c)
    IN  IF i = 0
        THEN [ head |-> s, tail |-> Empty ]
        ELSE [ head |-> SubSeq(s, 1, i - 1), tail |-> From(s, i + 1) ]

\* urllib.parse._splitparams: ';' counts only in the last path segment
SplitParams(u) ==
    LET slash == RFind(u, "/")
        I == IF slash > 0
             THEN { i \in slash..Len(u) : u[i] = ";" }
             ELSE { i \in DOMAIN u : u[i] = ";" }
    IN  IF I = {}
        THEN [ head |-> u, tail |-> Empty ]
        ELSE [ head |-> SubSeq(u, 1, MinOf(I) - 1), tail |-> From(u, MinOf(I) + 1) ]

urlparse(u) ==
    LET s == SplitScheme(u)
        n == SplitNetloc(s.rest)
        f == SplitFirst(n.rest, "#")
        q == SplitFirst(f.head, "?")
        p == IF s.scheme \in UsesParams /\ Find(q.head, ";") > 0
             THEN SplitParams(q.head)
             ELSE [ head |-> q.head, tail |-> Empty ]
    IN  [ scheme |-> s.scheme, netloc |-> n.netloc, path |-> p.head,
          params |-> p.tail, query |-> q.tail, fragment |-> f.tail ]

-----------------------------------------------------------------------------
(* The URL resolver                                                        *)

\* _parse_url returned (bucket_name, object_key)
Parsed(b, k) ==
    [ ok |-> TRUE, bucket |-> b, key |-> k, error |-> "none",
      shown_url_host |-> Empty, shown_endpoint_host |-> Empty ]

\* _parse_url raised; every error leaves through the except clause, which
\* re-raises it with the prefix "URL解析失败: ".  The mismatch message embeds
\* parsed.netloc and endpoint_host, kept here as the two shown_ fields.
Raised(e, shownUrl, shownEndpoint) ==
    [ ok |-> FALSE, bucket |-> Empty, key |-> Empty, error |-> e,
      shown_url_host |-> shownUrl, shown_endpoint_host |-> shownEndpoint ]

NoResult == Raised("not_called", Empty, Empty)

\* a resolver that takes the endpoint as configured, without a scheme added
NormalizeEndpoint_AsConfigured(e) == e

\* the endpoint with "https://" prepended unless it carries a scheme
NormalizeEndpoint(e) ==
    IF ~StartsWith(e, HttpPrefix) /\ ~StartsWith(e, HttpsPrefix)
    THEN HttpsPrefix \o e
    ELSE e

\* (parsed.netloc or parsed.path).lower()
HostOf(parsed) ==
    Lower(IF parsed.netloc # Empty THEN parsed.netloc ELSE parsed.path)

\* endpoint_host of _parse_url for a configured endpoint
EndpointHost(e) == HostOf(urlparse(NormalizeEndpoint(e)))

\* a path-style branch that skips one leading '/' only
PathStyle_OneSlash(parsed) ==
    LET path == IF StartsWith(parsed.path, << "/" >>)
                THEN From(parsed.path, 2)
                ELSE parsed.path
        parts == SplitFirst(path, "/")
    IN  IF parts.head = Empty
        THEN Raised("no_bucket", Empty, Empty)
        ELSE Parsed(parts.head, parts.tail)

\* the path-style branch: bucket and key from the path
PathStyle(parsed) ==
    LET path == LStrip(parsed.path, "/")
        parts == SplitFirst(path, "/")
    IN  IF parts.head = Empty
        THEN Raised("no_bucket", Empty, Empty)
        ELSE Parsed(parts.head, parts.tail)

\* a virtual-host branch that keeps the leading '/' of the path in the key
VirtualHostStyle_KeepSlash(parsed, url_host, endpoint_host) ==
    Parsed(SubSeq(url_host, 1, Len(url_host) - (Len(endpoint_host) + 1)),
           parsed.path)

\* the virtual-host branch: bucket from the host, key from the path
VirtualHostStyle(parsed, url_host, endpoint_host) ==
    Parsed(SubSeq(url_host, 1, Len(url_host) - (Len(endpoint_host) + 1)),
           LStrip(parsed.path, "/"))

\* a resolver without the final check
CheckObjectKey_Skipped(r) == r

\* the final check of _parse_url: an empty object key is an error
CheckObjectKey(r) ==
    IF r.ok /\ r.key = Empty THEN Raised("no_object_key", Empty, Empty) ELSE r

\* GetFileByUrlTool._parse_url
parse_url(e, u) ==
    LET parsed == urlparse(u)
    IN  IF e = Empty
        THEN Raised("missing_endpoint", Empty, Empty)
        ELSE LET endpoint_host == EndpointHost(e)
                 url_host == HostOf(parsed)
             IN  IF url_host = endpoint_host
                 THEN CheckObjectKey(PathStyle(parsed))
                 ELSE IF EndsWith(url_host, << "." >> \o endpoint_host)
                 THEN CheckObjectKey(
                          VirtualHostStyle(parsed, url_host, endpoint_host))
                 ELSE Raised("mismatch", parsed.netloc, endpoint_host)

\* GetFilesByUrlsTool._parse_url
parse_url_batch(e, u) ==
    LET parsed == urlparse(u)
        normalized == IF ~StartsWith(e, HttpPrefix) /\ ~StartsWith(e, HttpsPrefix)
                      THEN HttpsPrefix \o e
                      ELSE e
        endpoint_parsed == urlparse(normalized)
        endpoint_host == Lower(IF endpoint_parsed.netloc # Empty
                               THEN endpoint_parsed.netloc
                               ELSE endpoint_parsed.path)
        url_host == Lower(IF parsed.netloc # Empty
                          THEN parsed.netloc
                          ELSE parsed.path)
        path == LStrip(parsed.path, "/")
        path_parts == SplitFirst(path, "/")
        result ==
            IF url_host = endpoint_host
            THEN IF path_parts.head = Empty
                 THEN Raised("no_bucket", Empty, Empty)
                 ELSE Parsed(path_parts.head, path_parts.tail)
            ELSE IF EndsWith(url_host, << "." >> \o endpoint_host)
            THEN Parsed(SubSeq(url_host, 1,
                               Len(url_host) - (Len(endpoint_host) + 1)),
                        LStrip(parsed.path, "/"))
            ELSE Raised("mismatch", parsed.netloc, endpoint_host)
    IN  IF e = Empty
        THEN Raised("missing_endpoint", Empty, Empty)
        ELSE IF result.ok /\ result.key = Empty
        THEN Raised("no_object_key", Empty, Empty)
        ELSE result

-----------------------------------------------------------------------------
(* The object-key builder                                                  *)

\* os.path.splitext: the extension starts at the last '.' of the last path
\* component, unless only dots precede it in that component
splitext(p) ==
    LET sep == RFind(p, "/")
        dot == RFind(p, ".")
    IN  IF dot > sep /\ \E j \in (sep + 1)..(dot - 1) : p[j] # "."
        THEN [ root |-> SubSeq(p, 1, dot - 1), ext |-> From(p, dot) ]
        ELSE [ root |-> p, ext |-> Empty ]

\* os.path.basename
basename(p) == From(p, RFind(p, "/") + 1)

\* the name the file object offers: file.filename, else file.name
FileBaseName(f) == IF f.filename # Empty THEN f.filename ELSE f.name

\* utils.get_file_extension: from the last '.' inclusive, lower-cased
get_file_extension(f) ==
    LET base == FileBaseName(f)
        dot == RFind(base, ".")
    IN  IF dot = 0 THEN Empty ELSE Lower(From(base, dot))

RECURSIVE DecStr(_)
\* str(n) for a non-negative int
DecStr(n) ==
    IF n < 10
    THEN << Digits[n + 1] >>
    ELSE DecStr(n \div 10) \o << Digits[(n % 10) + 1] >>

\* the two-digit, zero-padded fields %m and %d of strftime
TwoDigits(n) == << Digits[(n \div 10) + 1], Digits[(n % 10) + 1] >>

\* the four-digit, zero-padded field %Y of strftime
FourDigits(n) == TwoDigits(n \div 100) \o TwoDigits(n % 100)

\* int(time.time()) at the first and at the second read of the clock
FirstEpoch(c) == c.epoch
SecondEpoch(c) == c.epoch + c.tick

\* the date written without zero padding, as "%Y/%-m/%-d" would give it
DateHierarchy_Unpadded(c) ==
    DecStr(c.year) \o << "/" >> \o DecStr(c.month) \o << "/" >> \o DecStr(c.day)

\* datetime.now().strftime("%Y/%m/%d")
DateHierarchy(c) ==
    FourDigits(c.year) \o << "/" >> \o TwoDigits(c.month) \o << "/" >>
        \o TwoDigits(c.day)

\* datetime.now().strftime("%Y%m%d")
DateCombined(c) == FourDigits(c.year) \o TwoDigits(c.month) \o TwoDigits(c.day)

ModeFilename == "filename"
ModeFilenameTimestamp == "filename_timestamp"
ModeNoSubdirectory == "no_subdirectory"
ModeHierarchy == "yyyy_mm_dd_hierarchy"
ModeCombined == "yyyy_mm_dd_combined"

\* the file name before the naming mode is applied (single upload)
SingleBaseFilename(f, fn, c) ==
    LET extension == get_file_extension(f)
    IN  IF fn # Empty
        THEN IF ~EndsWith(fn, extension) THEN fn \o extension ELSE fn
        ELSE IF f.filename # Empty
        THEN splitext(f.filename).root \o extension
        ELSE IF f.name # Empty
        THEN splitext(f.name).root \o extension
        ELSE << "f", "i", "l", "e", "_" >> \o DecStr(FirstEpoch(c)) \o extension

\* the naming mode of the single upload
SingleFilename(f, fn, fm, c) ==
    LET extension == get_file_extension(f)
        base == SingleBaseFilename(f, fn, c)
    IN  IF fm = ModeFilenameTimestamp
        THEN splitext(base).root \o << "_" >> \o DecStr(SecondEpoch(c))
                 \o extension
        ELSE base

\* the directory with '/' appended unless it already ends with one
EnsureTrailingSlash(d) == IF ~EndsWith(d, << "/" >>) THEN d \o << "/" >> ELSE d

\* the directory part with an unknown mode taken for 'yyyy_mm_dd_combined'
SingleJoin_UnknownAsCombined(d, dm, name, c) ==
    LET dir == IF d # Empty THEN EnsureTrailingSlash(d) ELSE Empty
    IN  IF dm = ModeNoSubdirectory
        THEN dir \o name
        ELSE IF dm = ModeHierarchy
        THEN dir \o DateHierarchy(c) \o << "/" >> \o name
        ELSE dir \o DateCombined(c) \o << "/" >> \o name

\* the directory part of the single upload
SingleJoin(d, dm, name, c) ==
    LET dir == IF d # Empty THEN EnsureTrailingSlash(d) ELSE Empty
    IN  IF dm = ModeNoSubdirectory
        THEN dir \o name
        ELSE IF dm = ModeHierarchy
        THEN dir \o DateHierarchy(c) \o << "/" >> \o name
        ELSE IF dm = ModeCombined
        THEN dir \o DateCombined(c) \o << "/" >> \o name
        ELSE dir \o name

\* UploadFileTool._generate_object_key
generate_object_key(f, fn, d, fm, dm, c) ==
    SingleJoin(d, dm, SingleFilename(f, fn, fm, c), c)

\* the stem of the batch upload without the file_<epoch> fallback
BatchOriginalFilename_NoFallback(f, c) ==
    IF f.filename # Empty
    THEN splitext(f.filename).root
    ELSE splitext(f.name).root

\* the stem of the batch upload: the file's own name or file_<epoch>
BatchOriginalFilename(f, c) ==
    IF f.filename # Empty
    THEN splitext(f.filename).root
    ELSE IF f.name # Empty
    THEN splitext(f.name).root
    ELSE << "f", "i", "l", "e", "_" >> \o DecStr(FirstEpoch(c))

\* the naming mode of the batch upload
BatchFilename(f, fm, c) ==
    LET extension == get_file_extension(f)
        original_filename == BatchOriginalFilename(f, c)
    IN  IF fm = ModeFilenameTimestamp
        THEN original_filename \o << "_" >> \o DecStr(SecondEpoch(c))
                 \o extension
        ELSE original_filename \o extension

\* the directory part of the batch upload: the directory is used as given
BatchJoin(d, dm, name, c) ==
    IF dm = ModeNoSubdirectory
    THEN d \o name
    ELSE IF dm = ModeHierarchy
    THEN d \o DateHierarchy(c) \o << "/" >> \o name
    ELSE IF dm = ModeCombined
    THEN d \o DateCombined(c) \o << "/" >> \o name
    ELSE d \o name

\* MultiUploadFilesTool._generate_object_key
generate_object_key_batch(f, d, fm, dm, c) ==
    BatchJoin(d, dm, BatchFilename(f, fm, c), c)

\* file_url of the upload tools: f"{endpoint}/{bucket_name}/{object_key}"
FileUrl(e, b, k) == NormalizeEndpoint(e) \o << "/" >> \o b \o << "/" >> \o k

-----------------------------------------------------------------------------
(* The MIME type of a downloaded file                                      *)

\* extension_to_mime of GetFileByUrlTool._invoke: one row for each key of the
\* dict
extension_to_mime ==
    { [ ext |-> << "p", "n", "g" >>, mime |-> "image/png" ],
      [ ext |-> << "j", "p", "g" >>, mime |-> "image/jpeg" ],
      [ ext |-> << "j", "p", "e", "g" >>, mime |-> "image/jpeg" ],
      [ ext |-> << "g", "i", "f" >>, mime |-> "image/gif" ],
      [ ext |-> << "b", "m", "p" >>, mime |-> "image/bmp" ],
      [ ext |-> << "s", "v", "g" >>, mime |-> "image/svg+xml" ],
      [ ext |-> << "w", "e", "b", "p" >>, mime |-> "image/webp" ],
      [ ext |-> << "p", "d", "f" >>, mime |-> "application/pdf" ],
      [ ext |-> << "t", "x", "t" >>, mime |-> "text/plain" ],
      [ ext |-> << "j", "s", "o", "n" >>, mime |-> "application/json" ],
      [ ext |-> << "x", "m", "l" >>, mime |-> "application/xml" ],
      [ ext |-> << "h", "t", "m", "l" >>, mime |-> "text/html" ],
      [ ext |-> << "c", "s", "s" >>, mime |-> "text/css" ],
      [ ext |-> << "j", "s" >>, mime |-> "application/javascript" ],
      [ ext |-> << "z", "i", "p" >>, mime |-> "application/zip" ],
      [ ext |-> << "r", "a", "r" >>, mime |-> "application/x-rar-compressed" ],
      [ ext |-> << "d", "o", "c" >>, mime |-> "application/msword" ],
      [ ext |-> << "d", "o", "c", "x" >>, mime |-> "application/vnd.openxmlformats-officedocument.wordprocessingml.document" ],
      [ ext |-> << "x", "l", "s" >>, mime |-> "application/vnd.ms-excel" ],
      [ ext |-> << "x", "l", "s", "x" >>, mime |-> "application/vnd.openxmlformats-officedocument.spreadsheetml.sheet" ],
      [ ext |-> << "p", "p", "t" >>, mime |-> "application/vnd.ms-powerpoint" ],
      [ ext |-> << "p", "p", "t", "x" >>, mime |-> "application/vnd.openxmlformats-officedocument.presentationml.presentation" ],
      [ ext |-> << "m", "p", "3" >>, mime |-> "audio/mpeg" ],
      [ ext |-> << "m", "p", "4" >>, mime |-> "video/mp4" ],
      [ ext |-> << "a", "v", "i" >>, mime |-> "video/x-msvideo" ],
      [ ext |-> << "m", "o", "v" >>, mime |-> "video/quicktime" ],
      [ ext |-> << "w", "m", "v" >>, mime |-> "video/x-ms-wmv" ],
      [ ext |-> << "f", "l", "v" >>, mime |-> "video/x-flv" ],
      [ ext |-> << "m", "k", "v" >>, mime |-> "video/x-matroska" ] }

\* extension_to_mime of GetFilesByUrlsTool._invoke
extension_to_mime_batch ==
    { [ ext |-> << "p", "n", "g" >>, mime |-> "image/png" ],
      [ ext |-> << "j", "p", "g" >>, mime |-> "image/jpeg" ],
      [ ext |-> << "j", "p", "e", "g" >>, mime |-> "image/jpeg" ],
      [ ext |-> << "g", "i", "f" >>, mime |-> "image/gif" ],
      [ ext |-> << "b", "m", "p" >>, mime |-> "image/bmp" ],
      [ ext |-> << "s", "v", "g" >>, mime |-> "image/svg+xml" ],
      [ ext |-> << "w", "e", "b", "p" >>, mime |-> "image/webp" ],
      [ ext |-> << "p", "d", "f" >>, mime |-> "application/pdf" ],
      [ ext |-> << "t", "x", "t" >>, mime |-> "text/plain" ],
      [ ext |-> << "j", "s", "o", "n" >>, mime |-> "application/json" ],
      [ ext |-> << "x", "m", "l" >>, mime |-> "application/xml" ],
      [ ext |-> << "h", "t", "m", "l" >>, mime |-> "text/html" ],
      [ ext |-> << "c", "s", "s" >>, mime |-> "text/css" ],
      [ ext |-> << "j", "s" >>, mime |-> "application/javascript" ],
      [ ext |-> << "z", "i", "p" >>, mime |-> "application/zip" ],
      [ ext |-> << "r", "a", "r" >>, mime |-> "application/x-rar-compressed" ],
      [ ext |-> << "d", "o", "c" >>, mime |-> "application/msword" ],
      [ ext |-> << "d", "o", "c", "x" >>, mime |-> "application/vnd.openxmlformats-officedocument.wordprocessingml.document" ],
      [ ext |-> << "x", "l", "s" >>, mime |-> "application/vnd.ms-excel" ],
      [ ext |-> << "x", "l", "s", "x" >>, mime |-> "application/vnd.openxmlformats-officedocument.spreadsheetml.sheet" ],
      [ ext |-> << "p", "p", "t" >>, mime |-> "application/vnd.ms-powerpoint" ],
      [ ext |-> << "p", "p", "t", "x" >>, mime |-> "application/vnd.openxmlformats-officedocument.presentationml.presentation" ],
      [ ext |-> << "m", "p", "3" >>, mime |-> "audio/mpeg" ],
      [ ext |-> << "m", "p", "4" >>, mime |-> "video/mp4" ],
      [ ext |-> << "a", "v", "i" >>, mime |-> "video/x-msvideo" ],
      [ ext |-> << "m", "o", "v" >>, mime |-> "video/quicktime" ],
      [ ext |-> << "w", "m", "v" >>, mime |-> "video/x-ms-wmv" ],
      [ ext |-> << "f", "l", "v" >>, mime |-> "video/x-flv" ],
      [ ext |-> << "m", "k", "v" >>, mime |-> "video/x-matroska" ] }

\* extension_to_mime of GetPublicFileByUrlTool._invoke
extension_to_mime_public ==
    { [ ext |-> << "p", "n", "g" >>, mime |-> "image/png" ],
      [ ext |-> << "j", "p", "g" >>, mime |-> "image/jpeg" ],
      [ ext |-> << "j", "p", "e", "g" >>, mime |-> "image/jpeg" ],
      [ ext |-> << "g", "i", "f" >>, mime |-> "image/gif" ],
      [ ext |-> << "b", "m", "p" >>, mime |-> "image/bmp" ],
      [ ext |-> << "s", "v", "g" >>, mime |-> "image/svg+xml" ],
      [ ext |-> << "w", "e", "b", "p" >>, mime |-> "image/webp" ],
      [ ext |-> << "p", "d", "f" >>, mime |-> "application/pdf" ],
      [ ext |-> << "t", "x", "t" >>, mime |-> "text/plain" ],
      [ ext |-> << "j", "s", "o", "n" >>, mime |-> "application/json" ],
      [ ext |-> << "x", "m", "l" >>, mime |-> "application/xml" ],
      [ ext |-> << "h", "t", "m", "l" >>, mime |-> "text/html" ],
      [ ext |-> << "c", "s", "s" >>, mime |-> "text/css" ],
      [ ext |-> << "j", "s" >>, mime |-> "application/javascript" ],
      [ ext |-> << "z", "i", "p" >>, mime |-> "application/zip" ],
      [ ext |-> << "r", "a", "r" >>, mime |-> "application/x-rar-compressed" ],
      [ ext |-> << "d", "o", "c" >>, mime |-> "application/msword" ],
      [ ext |-> << "d", "o", "c", "x" >>, mime |-> "application/vnd.openxmlformats-officedocument.wordprocessingml.document" ],
      [ ext |-> << "x", "l", "s" >>, mime |-> "application/vnd.ms-excel" ],
      [ ext |-> << "x", "l", "s", "x" >>, mime |-> "application/vnd.openxmlformats-officedocument.spreadsheetml.sheet" ],
      [ ext |-> << "p", "p", "t" >>, mime |-> "application/vnd.ms-powerpoint" ],
      [ ext |-> << "p", "p", "t", "x" >>, mime |-> "application/vnd.openxmlformats-officedocument.presentationml.presentation" ],
      [ ext |-> << "m", "p", "3" >>, mime |-> "audio/mpeg" ],
      [ ext |-> << "m", "p", "4" >>, mime |-> "video/mp4" ],
      [ ext |-> << "a", "v", "i" >>, mime |-> "video/x-msvideo" ],
      [ ext |-> << "m", "o", "v" >>, mime |-> "video/quicktime" ],
      [ ext |-> << "w", "m", "v" >>, mime |-> "video/x-ms-wmv" ],
      [ ext |-> << "f", "l", "v" >>, mime |-> "video/x-flv" ],
      [ ext |-> << "m", "k", "v" >>, mime |-> "video/x-matroska" ] }

\* the content type a response that reports none is given
Absent == "<absent>"

\* metadata.get("contenttype", "application/octet-stream") and
\* response.headers.get("content-type", "application/octet-stream")
ReportedMimeType(ct) == IF ct = Absent THEN "application/octet-stream" ELSE ct

\* os.path.splitext(file_name)[1].lower().lstrip('.')
FileExtension(name) == LStrip(Lower(splitext(name).ext), ".")

\* a correction step that keeps the reported type
CorrectMimeType_KeepReported(table, extension, reported) == reported

\* if file_extension: mime_type = extension_to_mime.get(file_extension, mime_type)
CorrectMimeType(table, extension, reported) ==
    IF extension # Empty /\ \E p \in table : p.ext = extension
    THEN (CHOOSE p \in table : p.ext = extension).mime
    ELSE reported

DownloadedFile ==
    << "d", "o", "w", "n", "l", "o", "a", "d", "e", "d", "_", "f", "i", "l", "e" >>

\* file_name of the public download: the last path segment of the URL, or
\* "downloaded_file" when there is none
PublicFileName(u) ==
    LET name == basename(urlparse(u).path)
    IN  IF name = Empty \/ name = << "/" >> THEN DownloadedFile ELSE name

-----------------------------------------------------------------------------
(* One invocation of a tool: checks, OBS client, storage calls, results    *)

\* an error raised by _invoke, or recorded for an item of a batch
Err(kind) == [ kind |-> kind, field |-> "none" ]
NoError == Err("none")

\* "缺少必需字段: {field}" and "{field} 不能为空"
MissingField(field) == [ kind |-> "missing_field", field |-> field ]

\* required_fields, in the order the loop visits them
RequiredFields ==
    << "access_key_id", "secret_access_key", "endpoint", "bucket" >>

\* credentials.get(field)
Credential(field) ==
    CASE field = "access_key_id" -> access_key_id
      [] field = "secret_access_key" -> secret_access_key
      [] field = "endpoint" -> endpoint
      [] field = "bucket" -> bucket

\* a validation loop that does not require the bucket
FirstMissingField_BucketOptional ==
    LET M == { i \in 1..3 : Credential(RequiredFields[i]) = Empty }
    IN  IF M = {} THEN "none" ELSE RequiredFields[MinOf(M)]

\* the field at which "for field in required_fields" raises, or "none"
FirstMissingField ==
    LET M == { i \in DOMAIN RequiredFields :
                   Credential(RequiredFields[i]) = Empty }
    IN  IF M = {} THEN "none" ELSE RequiredFields[MinOf(M)]

\* _validate_credentials of the upload tools and of the batch download tool
validate_credentials ==
    IF FirstMissingField # "none"
    THEN MissingField(FirstMissingField)
    ELSE NoError

\* GetFileByUrlTool._validate_credentials: the required fields, then the
\* format of the "directory" and "filename" credentials
validate_credentials_get_file ==
    LET d == optional_credentials.directory
        fn == optional_credentials.filename
    IN  IF FirstMissingField # "none"
        THEN MissingField(FirstMissingField)
        ELSE IF d # Empty /\ ~EndsWith(d, << "/" >>)
        THEN Err("directory_format")
        ELSE IF fn # Empty /\ (Find(fn, " ") > 0 \/ Find(fn, "/") > 0)
        THEN Err("filename_format")
        ELSE NoError

\* value.startswith((' ', '/', '\\'))
StartsWithSpaceOrSlash(v) == v # Empty /\ v[1] \in { " ", "/", "\\" }

\* HuaweiObsProvider._validate_credentials up to the creation of the client
validate_credentials_provider ==
    IF FirstMissingField # "none"
    THEN MissingField(FirstMissingField)
    ELSE IF StartsWithSpaceOrSlash(optional_credentials.directory)
    THEN Err("directory_format")
    ELSE IF StartsWithSpaceOrSlash(optional_credentials.filename)
    THEN Err("filename_format")
    ELSE NoError

RECURSIVE Split(_, _)
\* s.split(c)
Split(s, c) ==
    LET i == Find(s, c)
    IN  IF i = 0
        THEN << s >>
        ELSE << SubSeq(s, 1, i - 1) >> \o Split(From(s, i + 1), c)

\* s.strip(), for the one whitespace character explored (' ')
Strip(s) ==
    LET I == { i \in DOMAIN s : s[i] # " " }
    IN  IF I = {} THEN Empty ELSE SubSeq(s, MinOf(I), MaxOf(I))

\* [url.strip() for url in file_urls_str.split(";") if url.strip()]
SplitFileUrls(s) ==
    LET parts == Split(s, ";")
        stripped == [ i \in DOMAIN parts |-> Strip(parts[i]) ]
    IN  SelectSeq(stripped, LAMBDA x : x # Empty)

\* the 10 of "if len(file_urls) > 10" and "if len(files) > 10"
BatchLimit == 10

\* a limit check that also rejects a list of exactly BatchLimit items
TooMany_AtLimit(n) == n >= BatchLimit

TooMany(n) == n > BatchLimit

\* GetFilesByUrlsTool._invoke up to the creation of the client: the parameter
\* checks, then the credentials
CheckGetFilesByUrls(s, urls) ==
    IF s = Empty
    THEN Err("empty_input")
    ELSE IF urls = << >>
    THEN Err("empty_input")
    ELSE IF TooMany(Len(urls))
    THEN Err("too_many")
    ELSE validate_credentials

\* MultiUploadFilesTool._invoke up to the creation of the client
CheckMultiUploadFiles(fs) ==
    IF fs = << >>
    THEN Err("empty_input")
    ELSE IF TooMany(Len(fs))
    THEN Err("too_many")
    ELSE validate_credentials

\* GetFileByUrlTool._invoke up to the creation of the client: the parameter,
\* the credentials, then _parse_url (r is what it gives), whose error is
\* raised as it is
CheckGetFileByUrl(u, r) ==
    IF u = Empty
    THEN Err("empty_input")
    ELSE IF validate_credentials_get_file # NoError
    THEN validate_credentials_get_file
    ELSE IF ~r.ok
    THEN Err("url_parse")
    ELSE NoError

\* UploadFileTool._invoke up to the creation of the client; an absent "file"
\* parameter is the empty list
CheckUploadFile(fs) ==
    IF fs = << >> THEN Err("empty_input") ELSE validate_credentials

\* the ObsClient constructor, reached when the checks found nothing (e is
\* their error), may raise; the except clause of _invoke re-raises it
CreateClient(e, created) ==
    IF e # NoError THEN e ELSE IF ~created THEN Err("exception") ELSE NoError

\* a finally clause that leaves the client as it is
close_Skipped(c) == c

\* "finally: if client: client.close()": what becomes of the client
close(c) == IF c = "open" THEN "closed" ELSE c

\* one more storage or HTTP call in the log, made twice when it fails
StorageCalls_RetryOnce(log, i, op, ok) ==
    IF ok
    THEN Append(log, [ item |-> i, op |-> op, ok |-> ok, client |-> client ])
    ELSE Append(Append(log, [ item |-> i, op |-> op, ok |-> ok,
                              client |-> client ]),
                [ item |-> i, op |-> op, ok |-> ok, client |-> client ])

\* one more storage or HTTP call in the log: the item it is made for, the
\* method called, whether it succeeded, the state of the client at the call
StorageCalls(log, i, op, ok) ==
    Append(log, [ item |-> i, op |-> op, ok |-> ok, client |-> client ])

\* results with the entry put in front
AppendResult_InFront(rs, r) == << r >> \o rs

\* results.append(...)
AppendResult(rs, r) == Append(rs, r)

\* where the batch loop stands after an item failed: the batch is given up
AfterItemError_GiveUp == "raised"

\* where the batch loop stands after an item failed: the except clause of
\* the loop body records the error and the loop goes on
AfterItemError == "processing"

\* getattr(file, 'filename', 'unknown') or getattr(file, 'name', 'unknown'),
\* an empty attribute standing for one the object does not have
ErrorFilename(f) ==
    IF f.filename # Empty
    THEN f.filename
    ELSE IF f.name # Empty
    THEN f.name
    ELSE << "u", "n", "k", "n", "o", "w", "n" >>

\* sum(1 for r in results if r["status"] == "success")
SuccessCount(rs) == Cardinality({ i \in DOMAIN rs : rs[i].status = "success" })

\* success_count and error_count = len(results) - success_count
Summary(rs) ==
    [ success_count |-> SuccessCount(rs),
      error_count |-> Len(rs) - SuccessCount(rs) ]

NoSummary == [ success_count |-> 0, error_count |-> 0 ]

\* the blob message of a download: the item, the file name and the MIME
\* type, for a response that carries no content type
Blob(i, name, table) ==
    [ item |-> i, file_name |-> name,
      mime_type |-> CorrectMimeType(table, FileExtension(name),
                                    ReportedMimeType(Absent)) ]

-----------------------------------------------------------------------------
(* Inputs explored                                                         *)

MaxPathLen == 5
MaxDirLen == 2

\* all character sequences over A of length at most n
SeqsUpTo(A, n) == UNION { [ 1..k -> A ] : k \in 0..n }

\* configured endpoints: absent, or a host in either case, with or without a
\* scheme and with or without a trailing '/'
EndpointHosts == { << "h" >>, << "H" >> }
ConfiguredEndpoints ==
    { p \o h \o t : p \in { Empty, HttpsPrefix, HttpPrefix },
                    h \in EndpointHosts,
                    t \in { Empty, << "/" >> } }
Endpoints == { Empty } \cup ConfiguredEndpoints

Buckets == { << "b" >>, << "b", ".", "c" >> }

\* URLs handed to the resolver: with or without a scheme; the endpoint's
\* host, a bucket in front of it, an empty label in front of it, another host
UrlHosts ==
    { << "h" >>, << "H" >>, << "b", ".", "h" >>, << "b", ".", "H" >>,
      << ".", "h" >>, << "g" >> }
UrlPaths == SeqsUpTo({ "/", "k", "#" }, MaxPathLen)
Urls ==
    { p \o h \o q : p \in { Empty, HttpsPrefix }, h \in UrlHosts, q \in UrlPaths }

\* file objects: neither attribute, a name with an extension, only the name
\* attribute, no extension, an upper-case extension, a '#' in the name, two
\* dots, a ';' and a '?' in the name
FileObject(fname, name) == [ filename |-> fname, name |-> name ]
Files ==
    { FileObject(Empty, Empty),
      FileObject(<< "r", ".", "p" >>, Empty),
      FileObject(Empty, << "n", ".", "p" >>),
      FileObject(<< "r" >>, Empty),
      FileObject(<< "r", ".", "P" >>, Empty),
      FileObject(<< "r", "#", ".", "p" >>, Empty),
      FileObject(<< "r", ".", "q", ".", "p" >>, Empty),
      FileObject(<< "r", ";", "?" >>, Empty) }

\* the "filename" parameter: absent, plain, ending with the extension, with
\* another dot
ExplicitNames ==
    { Empty, << "x" >>, << "x", ".", "p" >>, << "x", ".", "y" >> }

Directories == SeqsUpTo({ "d", "/" }, MaxDirLen)

FilenameModes == { ModeFilename, ModeFilenameTimestamp, "other" }
DirectoryModes == { ModeNoSubdirectory, ModeHierarchy, ModeCombined, "other" }

\* wall clocks: the second read of time.time() may fall in the next second
Clocks ==
    { [ epoch |-> 1700000000, tick |-> t, year |-> 2023, month |-> 11, day |-> 14 ]
          : t \in { 0, 1 } }
    \cup
    { [ epoch |-> 1709600000, tick |-> t, year |-> 2024, month |-> 3, day |-> 5 ]
          : t \in { 0, 1 } }

\* each run makes one call: inputs are offered only while none has been made
Pending(S) == IF pc = "idle" THEN S ELSE { }

NoFile == FileObject(Empty, Empty)
NoClock == [ epoch |-> 0, tick |-> 0, year |-> 0, month |-> 0, day |-> 0 ]

\* file names of downloaded objects: every extension of the table in lower
\* case, some in upper or mixed case, unknown and missing extensions, a name
\* of dots only, a dot file, a name inside a directory, a key ending with '/'
MimeNames ==
    { << "a", "." >> \o p.ext : p \in extension_to_mime }
    \cup
    { << "a", ".", "P", "N", "G" >>, << "a", ".", "J", "p", "g" >>,
      << "a", ".", "x", "y", "z" >>, << "a", ".", "p", "n" >>,
      << "a" >>, << "a", "." >>, << ".", "p", "n", "g" >>,
      << ".", ".", "p", "n", "g" >>, << "a", ".", "b", ".", "g", "i", "f" >>,
      << "d", "/", "a", ".", "t", "x", "t" >>,
      << "a", ".", "p", "n", "g", "/" >>,
      << "a", ".", "p", "d", "f", "#", "x" >> }

\* URLs of those objects under endpoint 'h' and bucket 'b', in either style
MimeUrls ==
    { HttpsPrefix \o << "h", "/", "b", "/" >> \o n : n \in MimeNames }
    \cup
    { HttpsPrefix \o << "b", ".", "h", "/" >> \o n : n \in MimeNames }

\* URLs given to the public download: the same, and URLs without a path
PublicUrls ==
    MimeUrls \cup { HttpsPrefix \o << "h" >>, HttpsPrefix \o << "h", "/" >> }

\* content types a response reports
ContentTypes ==
    { Absent, "text/plain", "image/png", "binary/octet-stream" }

\* lists handed to the batch tools have up to MaxItems entries, one more
\* than the tools accept
MaxItems == 11

\* the URL of the i-th object of a batch: path-style, virtual-host style, on
\* a host that is not the endpoint's, and a path-style URL without a key
ItemKey(i) == DecStr(i) \o << ".", "p", "n", "g" >>
PathStyleItem(i) == HttpsPrefix \o << "h", "/", "b", "/" >> \o ItemKey(i)
VirtualHostItem(i) == HttpsPrefix \o << "b", ".", "h", "/" >> \o ItemKey(i)
MismatchItem(i) == HttpsPrefix \o << "g", "/", "b", "/" >> \o ItemKey(i)
NoKeyItem == HttpsPrefix \o << "h", "/", "b" >>

\* the ways a "file_urls" string is laid out: both URL styles joined by ';';
\* a first URL on another host, with spaces around the separators and empty
\* segments at the end; a second URL without a key and a final ';'; nothing
\* but separators and spaces
Layouts == { "plain", "first_mismatch", "second_no_key", "blank" }

ItemUrl(layout, i) ==
    CASE layout = "plain" ->
             IF i % 2 = 1 THEN PathStyleItem(i) ELSE VirtualHostItem(i)
      [] layout = "first_mismatch" ->
             IF i = 1 THEN MismatchItem(i) ELSE PathStyleItem(i)
      [] layout = "second_no_key" ->
             IF i = 2 THEN NoKeyItem ELSE VirtualHostItem(i)
      [] layout = "blank" -> << " " >>

Separator(layout) ==
    IF layout = "first_mismatch" THEN << " ", ";", " " >> ELSE << ";" >>

RECURSIVE JoinItems(_, _)
JoinItems(layout, n) ==
    IF n = 0
    THEN Empty
    ELSE IF n = 1
    THEN ItemUrl(layout, 1)
    ELSE JoinItems(layout, n - 1) \o Separator(layout) \o ItemUrl(layout, n)

FileUrlsString(layout, n) ==
    CASE layout = "plain" -> JoinItems(layout, n)
      [] layout = "first_mismatch" ->
             << " " >> \o JoinItems(layout, n) \o << ";", ";", " " >>
      [] layout = "second_no_key" -> JoinItems(layout, n) \o << ";" >>
      [] layout = "blank" -> JoinItems(layout, n)

FileUrlsStrings ==
    { FileUrlsString(layout, n) : layout \in Layouts, n \in 0..MaxItems }

\* the "files" list of a batch upload: n files named 1.p, 2.p, ...; and a
\* list whose first file has no name
FileList(n) == [ i \in 1..n |-> FileObject(DecStr(i) \o << ".", "p" >>, Empty) ]
FileLists ==
    { FileList(n) : n \in 0..MaxItems }
    \cup { << FileObject(Empty, Empty), FileObject(<< "r", ".", "p" >>, Empty) >> }

\* the "file" parameter of a single upload: absent, or one file
SingleFiles ==
    { << >>, << FileObject(<< "r", ".", "p" >>, Empty) >>,
      << FileObject(Empty, Empty) >> }

\* the "file_url" parameter of a single download: absent, both styles,
\* another host, no key
SingleUrls ==
    { Empty, PathStyleItem(1), VirtualHostItem(2), MismatchItem(1), NoKeyItem }

InvokeDirectories == { Empty, << "d", "/" >> }

\* what a storage or HTTP call comes to: a response with status below 300, a
\* response with another status, an exception
Outcomes == { "ok", "status", "exception" }

\* the optional "directory" and "filename" credentials: absent; a directory
\* without its final '/'; a directory that starts with '/'; a filename with
\* a space
NoOptionalCredentials == [ directory |-> Empty, filename |-> Empty ]
OptionalCredentials ==
    { NoOptionalCredentials,
      [ directory |-> << "d" >>, filename |-> Empty ],
      [ directory |-> << "/", "d", "/" >>, filename |-> Empty ],
      [ directory |-> Empty, filename |-> << "x", " ", "y" >> ] }

\* no tool has been invoked yet
NotInvoked ==
    /\ tool = "none"
    /\ file_urls_str = Empty
    /\ file_urls = << >>
    /\ files = << >>
    /\ results = << >>
    /\ blobs = << >>
    /\ calls = << >>
    /\ client = "none"
    /\ closes = 0
    /\ error = NoError
    /\ summary = NoSummary

\* no tool has been invoked, and the credentials are complete
NoInvocation ==
    /\ NotInvoked
    /\ access_key_id = << "a" >>
    /\ secret_access_key = << "s" >>
    /\ optional_credentials = NoOptionalCredentials

\* no download has produced a file yet
NoDownload ==
    /\ content_type = Absent
    /\ file_name = Empty
    /\ file_extension = Empty
    /\ mime_type = ""

-----------------------------------------------------------------------------
(* The resolver on its own: _parse_url of either download tool             *)

InitResolve ==
    /\ pc = "idle"
    /\ NoDownload
    /\ NoInvocation
    /\ endpoint \in Endpoints
    /\ bucket = << "b" >>
    /\ url = Empty
    /\ parse_res = NoResult
    /\ file = NoFile
    /\ filename = Empty
    /\ directory = Empty
    /\ filename_mode = ModeFilename
    /\ directory_mode = ModeNoSubdirectory
    /\ clock = NoClock
    /\ object_key = Empty
    /\ file_url = Empty

ParseUrl(u) ==
    /\ pc = "idle"
    /\ url' = u
    /\ parse_res' = parse_url(endpoint, u)
    /\ pc' = "parse_url"
    /\ UNCHANGED << mimeVars, invokeVars, endpoint, bucket, uploadVars >>

ParseUrlBatch(u) ==
    /\ pc = "idle"
    /\ url' = u
    /\ parse_res' = parse_url_batch(endpoint, u)
    /\ pc' = "parse_url_batch"
    /\ UNCHANGED << mimeVars, invokeVars, endpoint, bucket, uploadVars >>

NextResolve == \E u \in Pending(Urls) : ParseUrl(u) \/ ParseUrlBatch(u)

SpecResolve == InitResolve /\ [][NextResolve]_vars

-----------------------------------------------------------------------------
(* The builder on its own: _generate_object_key of either upload tool      *)

InitKey ==
    /\ pc = "idle"
    /\ NoDownload
    /\ NoInvocation
    /\ endpoint = << "h" >>
    /\ bucket = << "b" >>
    /\ url = Empty
    /\ parse_res = NoResult
    /\ file = NoFile
    /\ filename = Empty
    /\ directory = Empty
    /\ filename_mode = ModeFilename
    /\ directory_mode = ModeNoSubdirectory
    /\ clock \in Clocks
    /\ object_key = Empty
    /\ file_url = Empty

GenerateObjectKey(f, fn, d, fm, dm) ==
    /\ pc = "idle"
    /\ file' = f
    /\ filename' = fn
    /\ directory' = d
    /\ filename_mode' = fm
    /\ directory_mode' = dm
    /\ object_key' = generate_object_key(f, fn, d, fm, dm, clock)
    /\ pc' = "generate_object_key"
    /\ UNCHANGED << mimeVars, invokeVars, endpoint, bucket, parseVars, clock, file_url >>

GenerateObjectKeyBatch(f, d, fm, dm) ==
    /\ pc = "idle"
    /\ file' = f
    /\ filename' = Empty
    /\ directory' = d
    /\ filename_mode' = fm
    /\ directory_mode' = dm
    /\ object_key' = generate_object_key_batch(f, d, fm, dm, clock)
    /\ pc' = "generate_object_key_batch"
    /\ UNCHANGED << mimeVars, invokeVars, endpoint, bucket, parseVars, clock, file_url >>

NextKey ==
    \E f \in Pending(Files), d \in Directories, fm \in FilenameModes,
       dm \in DirectoryModes :
        \/ \E fn \in ExplicitNames : GenerateObjectKey(f, fn, d, fm, dm)
        \/ GenerateObjectKeyBatch(f, d, fm, dm)

SpecKey == InitKey /\ [][NextKey]_vars

-----------------------------------------------------------------------------
(* Upload, then resolve the URL of the uploaded object                     *)

InitRoundTrip ==
    /\ pc = "idle"
    /\ NoDownload
    /\ NoInvocation
    /\ endpoint \in ConfiguredEndpoints
    /\ bucket \in Buckets
    /\ url = Empty
    /\ parse_res = NoResult
    /\ file = NoFile
    /\ filename = Empty
    /\ directory = Empty
    /\ filename_mode = ModeFilename
    /\ directory_mode = ModeNoSubdirectory
    /\ clock = [ epoch |-> 1700000000, tick |-> 0,
                 year |-> 2023, month |-> 11, day |-> 14 ]
    /\ object_key = Empty
    /\ file_url = Empty

\* UploadFileTool._invoke with valid credentials: the key is built, putObject
\* is called, and file_url is built when the response status is below 300
UploadFile(f, fn, d, fm, dm, status_ok) ==
    /\ pc = "idle"
    /\ file' = f
    /\ filename' = fn
    /\ directory' = d
    /\ filename_mode' = fm
    /\ directory_mode' = dm
    /\ object_key' = generate_object_key(f, fn, d, fm, dm, clock)
    /\ file_url' = IF status_ok
                   THEN FileUrl(endpoint, bucket, object_key')
                   ELSE Empty
    /\ pc' = IF status_ok THEN "upload_file" ELSE "upload_failed"
    /\ UNCHANGED << mimeVars, invokeVars, endpoint, bucket, parseVars, clock >>

\* MultiUploadFilesTool._invoke with valid credentials, for one file of the list
MultiUploadFiles(f, d, fm, dm, status_ok) ==
    /\ pc = "idle"
    /\ file' = f
    /\ filename' = Empty
    /\ directory' = d
    /\ filename_mode' = fm
    /\ directory_mode' = dm
    /\ object_key' = generate_object_key_batch(f, d, fm, dm, clock)
    /\ file_url' = IF status_ok
                   THEN FileUrl(endpoint, bucket, object_key')
                   ELSE Empty
    /\ pc' = IF status_ok THEN "multi_upload_files" ELSE "upload_failed"
    /\ UNCHANGED << mimeVars, invokeVars, endpoint, bucket, parseVars, clock >>

Uploaded == pc \in { "upload_file", "multi_upload_files" }

\* the download tool is given the file_url the upload tool reported
ResolveFileUrl ==
    /\ Uploaded
    /\ url' = file_url
    /\ parse_res' = parse_url(endpoint, url')
    /\ pc' = "resolved_file_url"
    /\ UNCHANGED << mimeVars, invokeVars, endpoint, bucket, uploadVars >>

\* 'https://<endpointHost>/<bucket>/<key>'
PathStyleUrl(e, b, k) ==
    HttpsPrefix \o EndpointHost(e) \o << "/" >> \o b \o << "/" >> \o k

\* 'https://<bucket>.<endpointHost>/<key>'
VirtualHostUrl(e, b, k) ==
    HttpsPrefix \o b \o << "." >> \o EndpointHost(e) \o << "/" >> \o k

\* the download tool is given the path-style URL of the uploaded object
ResolvePathStyleUrl ==
    /\ Uploaded
    /\ url' = PathStyleUrl(endpoint, bucket, object_key)
    /\ parse_res' = parse_url(endpoint, url')
    /\ pc' = "resolved_path_style"
    /\ UNCHANGED << mimeVars, invokeVars, endpoint, bucket, uploadVars >>

\* the batch download tool is given the virtual-host URL of the object
ResolveVirtualHostUrl ==
    /\ Uploaded
    /\ url' = VirtualHostUrl(endpoint, bucket, object_key)
    /\ parse_res' = parse_url_batch(endpoint, url')
    /\ pc' = "resolved_virtual_host"
    /\ UNCHANGED << mimeVars, invokeVars, endpoint, bucket, uploadVars >>

\* the single download tool is given the virtual-host URL of the object
ResolveVirtualHostUrlSingle ==
    /\ Uploaded
    /\ url' = VirtualHostUrl(endpoint, bucket, object_key)
    /\ parse_res' = parse_url(endpoint, url')
    /\ pc' = "resolved_virtual_host_single"
    /\ UNCHANGED << mimeVars, invokeVars, endpoint, bucket, uploadVars >>

NextRoundTrip ==
    \/ \E f \in Pending(Files), d \in Directories,
          fm \in { ModeFilename, ModeFilenameTimestamp },
          dm \in { ModeNoSubdirectory, ModeHierarchy },
          status_ok \in BOOLEAN :
           \/ \E fn \in ExplicitNames : UploadFile(f, fn, d, fm, dm, status_ok)
           \/ MultiUploadFiles(f, d, fm, dm, status_ok)
    \/ ResolveFileUrl
    \/ ResolvePathStyleUrl
    \/ ResolveVirtualHostUrl
    \/ ResolveVirtualHostUrlSingle

SpecRoundTrip == InitRoundTrip /\ [][NextRoundTrip]_vars

-----------------------------------------------------------------------------
(* The success branch of the three download tools: the blob's metadata     *)

InitMime ==
    /\ pc = "idle"
    /\ NoDownload
    /\ NoInvocation
    /\ endpoint = << "h" >>
    /\ bucket = << "b" >>
    /\ url = Empty
    /\ parse_res = NoResult
    /\ file = NoFile
    /\ filename = Empty
    /\ directory = Empty
    /\ filename_mode = ModeFilename
    /\ directory_mode = ModeNoSubdirectory
    /\ clock = NoClock
    /\ object_key = Empty
    /\ file_url = Empty

\* GetFileByUrlTool._invoke, response status below 300: the name is the last
\* segment of the object key the resolver returned
BlobMetaGetFileByUrl(u, ct) ==
    /\ pc = "idle"
    /\ url' = u
    /\ parse_res' = parse_url(endpoint, u)
    /\ parse_res'.ok
    /\ content_type' = ct
    /\ file_name' = basename(parse_res'.key)
    /\ file_extension' = FileExtension(file_name')
    /\ mime_type' = CorrectMimeType(extension_to_mime, file_extension',
                                    ReportedMimeType(ct))
    /\ pc' = "blob_get_file_by_url"
    /\ UNCHANGED << invokeVars, endpoint, bucket, uploadVars >>

\* GetFilesByUrlsTool._invoke, one item with response status below 300: the
\* name is the last segment of the URL's path
BlobMetaGetFilesByUrls(u, ct) ==
    /\ pc = "idle"
    /\ url' = u
    /\ parse_res' = parse_url_batch(endpoint, u)
    /\ parse_res'.ok
    /\ content_type' = ct
    /\ file_name' = basename(urlparse(u).path)
    /\ file_extension' = FileExtension(file_name')
    /\ mime_type' = CorrectMimeType(extension_to_mime_batch, file_extension',
                                    ReportedMimeType(ct))
    /\ pc' = "blob_get_files_by_urls"
    /\ UNCHANGED << invokeVars, endpoint, bucket, uploadVars >>

\* GetPublicFileByUrlTool._invoke after a successful requests.get
BlobMetaGetPublicFileByUrl(u, ct) ==
    /\ pc = "idle"
    /\ url' = u
    /\ content_type' = ct
    /\ file_name' = PublicFileName(u)
    /\ file_extension' = FileExtension(file_name')
    /\ mime_type' = CorrectMimeType(extension_to_mime_public, file_extension',
                                    ReportedMimeType(ct))
    /\ pc' = "blob_get_public_file_by_url"
    /\ UNCHANGED << invokeVars, endpoint, bucket, parse_res, uploadVars >>

NextMime ==
    \E ct \in Pending(ContentTypes) :
        \/ \E u \in MimeUrls : BlobMetaGetFileByUrl(u, ct)
        \/ \E u \in MimeUrls : BlobMetaGetFilesByUrls(u, ct)
        \/ \E u \in PublicUrls : BlobMetaGetPublicFileByUrl(u, ct)

SpecMime == InitMime /\ [][NextMime]_vars

-----------------------------------------------------------------------------
(* One invocation of a tool, or of the provider's credential validation    *)

InitInvoke ==
    /\ pc = "idle"
    /\ NoDownload
    /\ NotInvoked
    /\ access_key_id \in { Empty, << "a" >> }
    /\ secret_access_key \in { Empty, << "s" >> }
    /\ endpoint \in { Empty, << "h" >> }
    /\ bucket \in { Empty, << "b" >> }
    /\ optional_credentials \in OptionalCredentials
    /\ optional_credentials # NoOptionalCredentials => FirstMissingField = "none"
    /\ url = Empty
    /\ parse_res = NoResult
    /\ file = NoFile
    /\ filename = Empty
    /\ directory = Empty
    /\ filename_mode = ModeFilename
    /\ directory_mode = ModeNoSubdirectory
    /\ clock = [ epoch |-> 1700000000, tick |-> 0,
                 year |-> 2023, month |-> 11, day |-> 14 ]
    /\ object_key = Empty
    /\ file_url = Empty

\* GetFilesByUrlsTool._invoke up to the loop: the list is split, the checks
\* are made, the client is created (the constructor may raise)
InvokeGetFilesByUrls(s, created) ==
    /\ pc = "idle"
    /\ tool' = "get_files_by_urls"
    /\ file_urls_str' = s
    /\ file_urls' = IF s = Empty THEN << >> ELSE SplitFileUrls(s)
    /\ error' = CreateClient(CheckGetFilesByUrls(s, file_urls'), created)
    /\ pc' = IF error' = NoError THEN "processing" ELSE "raised"
    /\ client' = IF error' = NoError THEN "open" ELSE "none"
    /\ UNCHANGED << mimeVars, endpoint, bucket, parseVars, uploadVars,
                    access_key_id, secret_access_key, optional_credentials,
                    files, results, blobs, calls, closes, summary >>

\* the body of the loop of GetFilesByUrlsTool._invoke for item i, the URL u,
\* r being what _parse_url gives for it: getObject, the blob message and the
\* entry of the results list, or the entry of the except clause
ProcessFileUrl(outcome, i, u, r) ==
    /\ url' = u
    /\ parse_res' = r
    /\ IF ~r.ok
       THEN /\ results' = AppendResult(results,
                              [ status |-> "error", file_url |-> u ])
            /\ error' = Err("url_parse")
            /\ pc' = AfterItemError
            /\ UNCHANGED << calls, blobs >>
       ELSE IF outcome # "ok"
       THEN /\ calls' = StorageCalls(calls, i, "getObject", FALSE)
            /\ results' = AppendResult(results,
                              [ status |-> "error", file_url |-> u ])
            /\ error' = Err(outcome)
            /\ pc' = AfterItemError
            /\ UNCHANGED blobs
       ELSE /\ calls' = StorageCalls(calls, i, "getObject", TRUE)
            /\ blobs' = Append(blobs, Blob(i, basename(urlparse(u).path),
                                           extension_to_mime_batch))
            /\ results' = AppendResult(results,
                              [ status |-> "success", file_url |-> u ])
            /\ error' = NoError
            /\ pc' = "processing"

\* one turn of the loop of GetFilesByUrlsTool._invoke: the next URL of the
\* list is resolved and processed
ProcessUrl(outcome) ==
    /\ pc = "processing"
    /\ tool = "get_files_by_urls"
    /\ Len(results) < Len(file_urls)
    /\ ProcessFileUrl(outcome, Len(results) + 1, file_urls[Len(results) + 1],
                      parse_url_batch(endpoint, file_urls[Len(results) + 1]))
    /\ UNCHANGED << mimeVars, endpoint, bucket, uploadVars, tool,
                    access_key_id, secret_access_key, optional_credentials,
                    file_urls_str, file_urls, files, client, closes, summary >>

\* GetFilesByUrlsTool._invoke after the loop: the counts, the JSON and text
\* messages, and the finally clause
FinishGetFilesByUrls ==
    /\ pc = "processing"
    /\ tool = "get_files_by_urls"
    /\ Len(results) = Len(file_urls)
    /\ summary' = Summary(results)
    /\ client' = close(client)
    /\ closes' = closes + 1
    /\ pc' = "completed"
    /\ UNCHANGED << mimeVars, endpoint, bucket, parseVars, uploadVars, tool,
                    access_key_id, secret_access_key, optional_credentials,
                    file_urls_str, file_urls, files, results, blobs, calls,
                    error >>

\* MultiUploadFilesTool._invoke up to the loop
InvokeMultiUploadFiles(fs, d, created) ==
    /\ pc = "idle"
    /\ tool' = "multi_upload_files"
    /\ files' = fs
    /\ directory' = d
    /\ error' = CreateClient(CheckMultiUploadFiles(fs), created)
    /\ pc' = IF error' = NoError THEN "processing" ELSE "raised"
    /\ client' = IF error' = NoError THEN "open" ELSE "none"
    /\ UNCHANGED << mimeVars, endpoint, bucket, parseVars, file, filename,
                    filename_mode, directory_mode, clock, object_key, file_url,
                    access_key_id, secret_access_key, optional_credentials,
                    file_urls_str, file_urls, results, blobs, calls, closes,
                    summary >>

\* one turn of the loop of MultiUploadFilesTool._invoke: the object key,
\* putObject, file_url and the entry of the results list
ProcessFile(outcome) ==
    /\ pc = "processing"
    /\ tool = "multi_upload_files"
    /\ Len(results) < Len(files)
    /\ file' = files[Len(results) + 1]
    /\ object_key' = generate_object_key_batch(file', directory, filename_mode,
                                               directory_mode, clock)
    /\ calls' = StorageCalls(calls, Len(results) + 1, "putObject",
                             outcome = "ok")
    /\ IF outcome = "ok"
       THEN /\ file_url' = FileUrl(endpoint, bucket, object_key')
            /\ results' = AppendResult(results,
                              [ status |-> "success",
                                filename |-> basename(object_key') ])
            /\ error' = NoError
            /\ pc' = "processing"
       ELSE /\ file_url' = file_url
            /\ results' = AppendResult(results,
                              [ status |-> "error",
                                filename |-> ErrorFilename(file') ])
            /\ error' = Err(outcome)
            /\ pc' = AfterItemError
    /\ UNCHANGED << mimeVars, endpoint, bucket, parseVars, filename,
                    directory, filename_mode, directory_mode, clock, tool,
                    access_key_id, secret_access_key, optional_credentials,
                    file_urls_str, file_urls, files, blobs, client, closes,
                    summary >>

\* MultiUploadFilesTool._invoke after the loop: the counts, the text message
\* and the finally clause
FinishMultiUploadFiles ==
    /\ pc = "processing"
    /\ tool = "multi_upload_files"
    /\ Len(results) = Len(files)
    /\ summary' = Summary(results)
    /\ client' = close(client)
    /\ closes' = closes + 1
    /\ pc' = "completed"
    /\ UNCHANGED << mimeVars, endpoint, bucket, parseVars, uploadVars, tool,
                    access_key_id, secret_access_key, optional_credentials,
                    file_urls_str, file_urls, files, results, blobs, calls,
                    error >>

\* GetFileByUrlTool._invoke up to the creation of the client; _parse_url is
\* called once the parameter and the credentials have passed
InvokeGetFileByUrl(u, created) ==
    /\ pc = "idle"
    /\ tool' = "get_file_by_url"
    /\ url' = u
    /\ error' = CreateClient(CheckGetFileByUrl(u, parse_url(endpoint, u)),
                             created)
    /\ parse_res' = IF error'.kind \in { "none", "url_parse", "exception" }
                    THEN parse_url(endpoint, u)
                    ELSE parse_res
    /\ pc' = IF error' = NoError THEN "processing" ELSE "raised"
    /\ client' = IF error' = NoError THEN "open" ELSE "none"
    /\ UNCHANGED << mimeVars, endpoint, bucket, uploadVars,
                    access_key_id, secret_access_key, optional_credentials,
                    file_urls_str, file_urls, files, results, blobs, calls,
                    closes, summary >>

\* GetFileByUrlTool._invoke from getObject on: the blob message or the error,
\* and the finally clause
GetObject(outcome) ==
    /\ pc = "processing"
    /\ tool = "get_file_by_url"
    /\ calls' = StorageCalls(calls, 1, "getObject", outcome = "ok")
    /\ IF outcome = "ok"
       THEN /\ blobs' = Append(blobs, Blob(1, basename(parse_res.key),
                                           extension_to_mime))
            /\ error' = NoError
            /\ pc' = "completed"
       ELSE /\ blobs' = blobs
            /\ error' = Err(outcome)
            /\ pc' = "raised"
    /\ client' = close(client)
    /\ closes' = closes + 1
    /\ UNCHANGED << mimeVars, endpoint, bucket, parseVars, uploadVars, tool,
                    access_key_id, secret_access_key, optional_credentials,
                    file_urls_str, file_urls, files, results, summary >>

\* UploadFileTool._invoke up to the creation of the client
InvokeUploadFile(fs, fn, d, created) ==
    /\ pc = "idle"
    /\ tool' = "upload_file"
    /\ files' = fs
    /\ file' = IF fs = << >> THEN file ELSE fs[1]
    /\ filename' = fn
    /\ directory' = d
    /\ error' = CreateClient(CheckUploadFile(fs), created)
    /\ pc' = IF error' = NoError THEN "processing" ELSE "raised"
    /\ client' = IF error' = NoError THEN "open" ELSE "none"
    /\ UNCHANGED << mimeVars, endpoint, bucket, parseVars, filename_mode,
                    directory_mode, clock, object_key, file_url,
                    access_key_id, secret_access_key, optional_credentials,
                    file_urls_str, file_urls, results, blobs, calls, closes,
                    summary >>

\* UploadFileTool._invoke from the object key on: the content of the file is
\* looked for (read, blob, value, getvalue), putObject is called, file_url is
\* built or the error raised, and the finally clause
PutObject(outcome, has_content) ==
    /\ pc = "processing"
    /\ tool = "upload_file"
    /\ object_key' = generate_object_key(file, filename, directory,
                                         filename_mode, directory_mode, clock)
    /\ IF ~has_content
       THEN /\ calls' = calls
            /\ file_url' = file_url
            /\ error' = Err("no_content")
            /\ pc' = "raised"
       ELSE IF outcome = "ok"
       THEN /\ calls' = StorageCalls(calls, 1, "putObject", TRUE)
            /\ file_url' = FileUrl(endpoint, bucket, object_key')
            /\ error' = NoError
            /\ pc' = "completed"
       ELSE /\ calls' = StorageCalls(calls, 1, "putObject", FALSE)
            /\ file_url' = file_url
            /\ error' = Err(outcome)
            /\ pc' = "raised"
    /\ client' = close(client)
    /\ closes' = closes + 1
    /\ UNCHANGED << mimeVars, endpoint, bucket, parseVars, file, filename,
                    directory, filename_mode, directory_mode, clock, tool,
                    access_key_id, secret_access_key, optional_credentials,
                    file_urls_str, file_urls, files, results, blobs, summary >>

\* GetPublicFileByUrlTool._invoke: the parameter check, requests.get with
\* raise_for_status, the blob message or the error; no OBS client
InvokeGetPublicFileByUrl(u, outcome) ==
    /\ pc = "idle"
    /\ tool' = "get_public_file_by_url"
    /\ url' = u
    /\ IF u = Empty
       THEN /\ calls' = calls
            /\ blobs' = blobs
            /\ error' = Err("empty_input")
            /\ pc' = "raised"
       ELSE IF outcome = "ok"
       THEN /\ calls' = StorageCalls(calls, 1, "requests.get", TRUE)
            /\ blobs' = Append(blobs, Blob(1, PublicFileName(u),
                                           extension_to_mime_public))
            /\ error' = NoError
            /\ pc' = "completed"
       ELSE /\ calls' = StorageCalls(calls, 1, "requests.get", FALSE)
            /\ blobs' = blobs
            /\ error' = Err(outcome)
            /\ pc' = "raised"
    /\ UNCHANGED << mimeVars, endpoint, bucket, parse_res, uploadVars,
                    access_key_id, secret_access_key, optional_credentials,
                    file_urls_str, file_urls, files, results, client, closes,
                    summary >>

\* HuaweiObsProvider._validate_credentials, the SDK being installed: the
\* checks, the client, headBucket; the client is closed when headBucket
\* returns and left open when it raises
ValidateProviderCredentials(outcome, created) ==
    /\ pc = "idle"
    /\ tool' = "provider"
    /\ IF CreateClient(validate_credentials_provider, created) # NoError
       THEN /\ pc' = "raised"
            /\ error' = CreateClient(validate_credentials_provider, created)
            /\ UNCHANGED << calls, client, closes >>
       ELSE IF outcome = "exception"
       THEN /\ calls' = StorageCalls(calls, 1, "headBucket", FALSE)
            /\ client' = "open"
            /\ closes' = closes
            /\ error' = Err(outcome)
            /\ pc' = "raised"
       ELSE /\ calls' = StorageCalls(calls, 1, "headBucket", TRUE)
            /\ client' = "closed"
            /\ closes' = closes + 1
            /\ error' = NoError
            /\ pc' = "completed"
    /\ UNCHANGED << mimeVars, endpoint, bucket, parseVars, uploadVars,
                    access_key_id, secret_access_key, optional_credentials,
                    file_urls_str, file_urls, files, results, blobs, summary >>

NextInvoke ==
    \/ \E s \in Pending(FileUrlsStrings), created \in BOOLEAN :
           InvokeGetFilesByUrls(s, created)
    \/ \E outcome \in Outcomes : ProcessUrl(outcome)
    \/ FinishGetFilesByUrls
    \/ \E fs \in Pending(FileLists), d \in InvokeDirectories,
          created \in BOOLEAN :
           InvokeMultiUploadFiles(fs, d, created)
    \/ \E outcome \in Outcomes : ProcessFile(outcome)
    \/ FinishMultiUploadFiles
    \/ \E u \in Pending(SingleUrls), created \in BOOLEAN :
           InvokeGetFileByUrl(u, created)
    \/ \E outcome \in Outcomes : GetObject(outcome)
    \/ \E fs \in Pending(SingleFiles), fn \in { Empty, << "x" >> },
          d \in InvokeDirectories, created \in BOOLEAN :
           InvokeUploadFile(fs, fn, d, created)
    \/ \E outcome \in Outcomes, has_content \in BOOLEAN :
           PutObject(outcome, has_content)
    \/ \E u \in Pending(SingleUrls), outcome \in Outcomes :
           InvokeGetPublicFileByUrl(u, outcome)
    \/ \E outcome \in Pending({ "ok", "exception" }), created \in BOOLEAN :
           ValidateProviderCredentials(outcome, created)

SpecInvoke == InitInvoke /\ [][NextInvoke]_vars

-----------------------------------------------------------------------------
(* Properties of the resolver (SpecResolve)                                *)

Resolved == pc \in { "parse_url", "parse_url_batch" }

\* the resolver that produced parse_res, applied to another endpoint or URL
ResolveAs(e, u) ==
    IF pc = "parse_url_batch" THEN parse_url_batch(e, u) ELSE parse_url(e, u)

HasScheme(e) == StartsWith(e, HttpPrefix) \/ StartsWith(e, HttpsPrefix)

UrlHost == HostOf(urlparse(url))
UrlPath == urlparse(url).path

\* the URL's host equals the endpoint's host
PathStyleMatch == endpoint # Empty /\ UrlHost = EndpointHost(endpoint)

\* the URL's host is '<something>.<endpoint host>'
VirtualHostMatch ==
    /\ endpoint # Empty
    /\ ~PathStyleMatch
    /\ EndsWith(UrlHost, << "." >> \o EndpointHost(endpoint))

IsSubstring(x, s) ==
    \E i \in 0..(Len(s) - Len(x)) : SubSeq(s, i + 1, i + Len(x)) = x

AllSlashes(s) == \A i \in DOMAIN s : s[i] = "/"

\* C3: whenever _parse_url returns a pair, the bucket and the object key are
\* both non-empty (stated for URLs that carry a network location, the
\* well-formed ones).
C3_BothNonEmptyOnSuccess ==
    (Resolved /\ parse_res.ok /\ urlparse(url).netloc # Empty) =>
        (parse_res.bucket # Empty /\ parse_res.key # Empty)

\* C4: for a configured endpoint H without a scheme, resolving with H and with
\* "https://" + H gives the same outcome; the case of the endpoint's host and of
\* the URL's host does not change whether and to what the URL resolves.
C4_SchemeAndCaseInsensitive ==
    (Resolved /\ endpoint # Empty) =>
        /\ ~HasScheme(endpoint) =>
               parse_res = ResolveAs(HttpsPrefix \o endpoint, url)
        /\ parse_res = ResolveAs(Lower(endpoint), url)
        /\ LET r == ResolveAs(endpoint, Lower(url))
           IN  /\ r.ok = parse_res.ok
               /\ r.error = parse_res.error
               /\ r.ok => /\ Lower(r.bucket) = Lower(parse_res.bucket)
                          /\ Lower(r.key) = Lower(parse_res.key)

\* a scheme-less upper-case endpoint with a trailing '/' resolves a
\* virtual-host URL written in lower case
C4_Witness ==
    /\ pc = "parse_url"
    /\ endpoint = << "H", "/" >>
    /\ urlparse(url).netloc = << "b", ".", "h" >>
    /\ parse_res.ok
    /\ parse_res.bucket = << "b" >>

\* the variable part of the mismatch message: "{netloc} != {endpoint_host}"
MismatchMessage ==
    parse_res.shown_url_host \o << " ", "!", "=", " " >>
        \o parse_res.shown_endpoint_host

\* C5: a URL whose host neither equals the endpoint host nor ends with
\* '.' + endpoint host is rejected, and the message contains the URL's host
\* (in the case it was written in) and the endpoint host.
C5_MismatchNamesBothHosts ==
    (Resolved /\ endpoint # Empty /\ ~PathStyleMatch /\ ~VirtualHostMatch) =>
        /\ ~parse_res.ok
        /\ parse_res.error = "mismatch"
        /\ IsSubstring(EndpointHost(endpoint), MismatchMessage)
        /\ IsSubstring(UrlHost, Lower(MismatchMessage))

\* the URL matches the endpoint but leaves nothing for the object key
EmptyKeyUrl ==
    \/ /\ PathStyleMatch
       /\ LET p == LStrip(UrlPath, "/")
          IN  Find(p, "/") = 0 \/ Find(p, "/") = Len(p)
    \/ /\ VirtualHostMatch
       /\ AllSlashes(UrlPath)

\* C6: a URL that matches the endpoint in either style but yields an empty
\* object key is rejected, and no returned pair has an empty key.
C6_EmptyKeyRejected ==
    Resolved =>
        /\ parse_res.ok => parse_res.key # Empty
        /\ EmptyKeyUrl =>
               /\ ~parse_res.ok
               /\ parse_res.error \in { "no_object_key", "no_bucket" }
               /\ ~AllSlashes(UrlPath) => parse_res.error = "no_object_key"

\* 'https://h/k' (bucket only) and 'https://b.h/' are rejected for their key
C6_Witness ==
    /\ Resolved
    /\ endpoint = << "h" >>
    /\ \/ url = HttpsPrefix \o << "h", "/", "k" >>
       \/ url = HttpsPrefix \o << "b", ".", "h", "/" >>
    /\ parse_res.error = "no_object_key"

\* the path segment that follows the first '/' of the path
FirstPathSegment(p) ==
    SplitFirst(IF StartsWith(p, << "/" >>) THEN From(p, 2) ELSE p, "/").head

\* C7 as stated: in a path-style match the bucket is the first path segment
\* and the key the remainder, and an empty first path segment (path '', '/',
\* or a path starting with '//') is rejected.
C7_EmptyFirstSegmentRejected ==
    (Resolved /\ PathStyleMatch) =>
        /\ FirstPathSegment(UrlPath) = Empty => ~parse_res.ok
        /\ parse_res.ok => parse_res.bucket = FirstPathSegment(UrlPath)

\* C7 as amended: in a path-style match every leading '/' of the path is
\* skipped; the bucket is the first segment after them and the key is what
\* follows that segment's '/'.  The URL is rejected for its bucket exactly
\* when the path is empty or only '/' characters, so a path that starts with
\* '//' and goes on with a bucket and a key resolves.
C7_LeadingSlashesSkipped ==
    (Resolved /\ PathStyleMatch) =>
        /\ AllSlashes(UrlPath) <=> parse_res.error = "no_bucket"
        /\ parse_res.ok =>
               /\ parse_res.bucket # Empty
               /\ Find(parse_res.bucket, "/") = 0
               /\ \E n \in 0..Len(UrlPath) :
                      /\ AllSlashes(SubSeq(UrlPath, 1, n))
                      /\ UrlPath = SubSeq(UrlPath, 1, n) \o parse_res.bucket
                                       \o << "/" >> \o parse_res.key
        /\ (~parse_res.ok /\ ~AllSlashes(UrlPath)) =>
               /\ parse_res.error = "no_object_key"
               /\ EmptyKeyUrl

\* 'https://h//k/k' resolves to bucket k and key k
C7_Witness ==
    /\ Resolved
    /\ PathStyleMatch
    /\ StartsWith(UrlPath, << "/", "/" >>)
    /\ parse_res.ok
    /\ parse_res.bucket = << "k" >>

\* a resolver has just been called
ResolverCalled == pc \in { "parse_url", "parse_url_batch" }

\* C22: whichever of the two resolvers was called, its outcome (the bucket
\* and the key, or the error with the hosts its message shows) is what the
\* single-download resolver and what the batch-download resolver give for the
\* endpoint and the URL; and a call changes nothing but the outcome: the
\* endpoint, the other credentials and all other state stay as they were.
C22_ResolversEquivalent ==
    /\ [](ResolverCalled =>
              /\ parse_res = parse_url(endpoint, url)
              /\ parse_res = parse_url_batch(endpoint, url))
    /\ [][ResolverCalled' =>
              UNCHANGED << endpoint, bucket, mimeVars, invokeVars,
                           uploadVars >>]_vars

\* 'https://b.H/k' against the endpoint 'h': the batch resolver was called
\* and gave ('b', 'k'), as the single resolver does
C22_Witness ==
    /\ pc = "parse_url_batch"
    /\ endpoint = << "h" >>
    /\ url = HttpsPrefix \o << "b", ".", "H", "/", "k" >>
    /\ parse_res = Parsed(<< "b" >>, << "k" >>)
    /\ parse_url(endpoint, url) = parse_res

-----------------------------------------------------------------------------
(* Properties of the builder (SpecKey)                                     *)

KeyBuilt == pc \in { "generate_object_key", "generate_object_key_batch" }

\* C8: the object key returned by either builder never starts with '/'.
C8_KeyNeverStartsWithSlash ==
    KeyBuilt => ~StartsWith(object_key, << "/" >>)

\* s.rstrip(c)
RStrip(s, c) ==
    LET I == { i \in DOMAIN s : s[i] # c }
    IN  IF I = {} THEN Empty ELSE SubSeq(s, 1, MaxOf(I))

\* C9: for a non-empty directory, with or without a trailing '/', the key
\* starts with the directory ended by exactly one '/', and the single and the
\* batch builder return the same key when no explicit filename is given.
C9_DirectoryJoinedWithOneSlash ==
    (KeyBuilt /\ directory # Empty /\ ~AllSlashes(directory)) =>
        LET prefix == RStrip(directory, "/") \o << "/" >>
        IN  /\ StartsWith(object_key, prefix)
            /\ Len(object_key) > Len(prefix)
            /\ object_key[Len(prefix) + 1] # "/"
            /\ filename = Empty =>
                   generate_object_key(file, Empty, directory, filename_mode,
                                       directory_mode, clock)
                   = generate_object_key_batch(file, directory, filename_mode,
                                               directory_mode, clock)

\* the name chosen for the file: the explicit filename (without the file's
\* extension, when it ends with it), else the stem of the file's own name,
\* else file_<epoch-seconds>
ChosenStem ==
    LET extension == get_file_extension(file)
    IN  IF filename # Empty
        THEN IF EndsWith(filename, extension)
             THEN SubSeq(filename, 1, Len(filename) - Len(extension))
             ELSE filename
        ELSE IF FileBaseName(file) # Empty
        THEN splitext(FileBaseName(file)).root
        ELSE << "f", "i", "l", "e", "_" >> \o DecStr(FirstEpoch(clock))

\* C10: with filename_mode 'filename_timestamp' the final segment of the key
\* is <stem>_<epoch-seconds><extension>; with any other mode it is
\* <stem><extension>.  Stated for a directory that is empty or ends with '/',
\* where the final segment is the file name the builder made.
C10_FinalSegment ==
    (KeyBuilt /\ (directory = Empty \/ EndsWith(directory, << "/" >>))) =>
        basename(object_key) =
            IF filename_mode = ModeFilenameTimestamp
            THEN ChosenStem \o << "_" >> \o DecStr(SecondEpoch(clock))
                     \o get_file_extension(file)
            ELSE ChosenStem \o get_file_extension(file)

\* the explicit filename without the file's extension, when it ends with it
ExplicitStem ==
    LET extension == get_file_extension(file)
    IN  IF EndsWith(filename, extension)
        THEN SubSeq(filename, 1, Len(filename) - Len(extension))
        ELSE filename

\* the characters the naming mode puts between the stem and the extension
ModeSuffix ==
    IF filename_mode = ModeFilenameTimestamp
    THEN << "_" >> \o DecStr(SecondEpoch(clock))
    ELSE Empty

\* C11: with an explicit filename the single-upload builder keeps the whole
\* explicit name as the stem of the final segment (nothing of it is dropped),
\* appends the file's extension exactly when the name does not already end
\* with it, and the final segment is the stem, the mode's suffix and the
\* extension once, in both naming modes.
C11_ExplicitNameVerbatim ==
    (pc = "generate_object_key" /\ filename # Empty) =>
        LET extension == get_file_extension(file)
            segment == basename(object_key)
        IN  /\ StartsWith(segment, ExplicitStem)
            /\ EndsWith(segment, extension)
            /\ Len(segment) = Len(ExplicitStem) + Len(ModeSuffix) + Len(extension)
            /\ filename_mode # ModeFilenameTimestamp =>
                   segment = IF EndsWith(filename, extension)
                             THEN filename
                             ELSE filename \o extension

\* n written with two digits
Pad2(n) == IF n < 10 THEN << "0" >> \o DecStr(n) ELSE DecStr(n)

\* the date segment named by the directory mode, for the clock's local date
ExpectedDateSegment ==
    IF directory_mode = ModeHierarchy
    THEN DecStr(clock.year) \o << "/" >> \o Pad2(clock.month) \o << "/" >>
             \o Pad2(clock.day)
    ELSE DecStr(clock.year) \o Pad2(clock.month) \o Pad2(clock.day)

\* the file name made by the builder that ran
BuiltFilename ==
    IF pc = "generate_object_key"
    THEN SingleFilename(file, filename, filename_mode, clock)
    ELSE BatchFilename(file, filename_mode, clock)

\* what stands for '<directory>' in front of the date: the directory as given;
\* for a directory that lacks its final '/', the directory with or without it
DirectoryPrefixes ==
    IF directory = Empty \/ EndsWith(directory, << "/" >>)
    THEN { directory }
    ELSE { directory, directory \o << "/" >> }

C13_UnknownModesFallBack ==
    /\ pc = "generate_object_key" =>
           LET dm == IF directory_mode \in { ModeNoSubdirectory, ModeHierarchy,
                                             ModeCombined }
                     THEN directory_mode ELSE ModeNoSubdirectory
               fm == IF filename_mode \in { ModeFilename, ModeFilenameTimestamp }
                     THEN filename_mode ELSE ModeFilename
           IN  object_key = generate_object_key(file, filename, directory, fm,
                                                dm, clock)
    /\ pc = "generate_object_key_batch" =>
           LET dm == IF directory_mode \in { ModeNoSubdirectory, ModeHierarchy,
                                             ModeCombined }
                     THEN directory_mode ELSE ModeNoSubdirectory
               fm == IF filename_mode \in { ModeFilename, ModeFilenameTimestamp }
                     THEN filename_mode ELSE ModeFilename
           IN  object_key = generate_object_key_batch(file, directory, fm, dm,
                                                      clock)

\* both modes unknown: the key is directory + name, with no date and no epoch
C13_Witness ==
    /\ KeyBuilt
    /\ directory_mode = "other"
    /\ filename_mode = "other"
    /\ file.filename = << "r", ".", "p" >>
    /\ filename = Empty
    /\ directory = << "d", "/" >>
    /\ object_key = << "d", "/", "r", ".", "p" >>

\* the file object gives no name: neither attribute, or both empty
Nameless == file.filename = Empty /\ file.name = Empty

\* C14: for every file object, directory and mode the builder returns a key
\* (a non-empty string); when the file gives no name and no explicit filename
\* is given, the key ends with file_<epoch-seconds>, the naming mode's suffix
\* and the extension.
C14_TotalWithFallbackStem ==
    KeyBuilt =>
        /\ Len(object_key) > 0
        /\ (Nameless /\ filename = Empty) =>
               EndsWith(object_key,
                        << "f", "i", "l", "e", "_" >>
                            \o DecStr(FirstEpoch(clock)) \o ModeSuffix
                            \o get_file_extension(file))

\* a file object without any name, uploaded by the batch tool with defaults
C14_Witness ==
    /\ pc = "generate_object_key_batch"
    /\ Nameless
    /\ directory = Empty
    /\ filename_mode = ModeFilename
    /\ directory_mode = ModeNoSubdirectory
    /\ object_key = << "f", "i", "l", "e", "_" >> \o DecStr(clock.epoch)

-----------------------------------------------------------------------------
(* Properties of the MIME type (SpecMime)                                  *)

BlobMade ==
    pc \in { "blob_get_file_by_url", "blob_get_files_by_urls",
             "blob_get_public_file_by_url" }

\* the extension of a file name, lower-cased and without its dot: what
\* follows the last '.', when something other than dots stands before it
NameExtension(name) ==
    LET dot == RFind(name, ".")
    IN  IF dot > 1 /\ \E j \in 1..(dot - 1) : name[j] # "."
        THEN Lower(From(name, dot + 1))
        ELSE Empty

\* C15: in the three download tools the MIME type of the blob is the table's
\* value for the file name's extension when the table has it, whatever the
\* response reported; otherwise it is the reported content type, or
\* 'application/octet-stream' when none was reported.  The three tools have
\* the same table.
C15_MimeFromExtension ==
    /\ extension_to_mime_batch = extension_to_mime
    /\ extension_to_mime_public = extension_to_mime
    /\ BlobMade =>
           LET ext == NameExtension(file_name)
               rows == { p \in extension_to_mime : p.ext = ext }
           IN  /\ \A p \in rows : mime_type = p.mime
               /\ rows = {} =>
                      mime_type = IF content_type = Absent
                                  THEN "application/octet-stream"
                                  ELSE content_type

\* 'a.PNG' reported as text/plain is emitted as image/png
C15_Witness ==
    /\ BlobMade
    /\ file_name = << "a", ".", "P", "N", "G" >>
    /\ content_type = "text/plain"
    /\ mime_type = "image/png"

-----------------------------------------------------------------------------
(* Properties of upload followed by resolution (SpecRoundTrip)             *)

SameObject ==
    /\ parse_res.ok
    /\ parse_res.bucket = bucket
    /\ parse_res.key = object_key

\* C1: the path-style URL of an uploaded object, and the file_url the upload
\* tool reports, resolve to the bucket and the key of the upload.
C1_PathStyleRoundTrip ==
    pc \in { "resolved_file_url", "resolved_path_style" } => SameObject

\* C2: the virtual-host URL of an uploaded object resolves to the bucket and
\* the key of the upload.
C2_VirtualHostRoundTrip ==
    pc \in { "resolved_virtual_host", "resolved_virtual_host_single" } =>
        SameObject

-----------------------------------------------------------------------------
(* Properties of an invocation (SpecInvoke)                                *)

BatchTools == { "get_files_by_urls", "multi_upload_files" }

\* the number of input items of a batch invocation
NumItems ==
    IF tool = "get_files_by_urls" THEN Len(file_urls) ELSE Len(files)

\* the storage or HTTP calls made for item i
ItemCalls(i) == { k \in DOMAIN calls : calls[k].item = i }

\* item i of a batch download is a URL the resolver rejects
ParseFails(i) ==
    /\ tool = "get_files_by_urls"
    /\ ~parse_url_batch(endpoint, file_urls[i]).ok

\* entry i of results is as item i went, rejected telling whether its URL
\* was rejected: 'error' when the URL was rejected or the storage call raised
\* or came back with a status of 300 or more, 'success' otherwise; an item
\* whose URL resolves got its storage call
EntryAsItemWent(i, rejected) ==
    /\ results[i].status =
           IF rejected \/ \E k \in ItemCalls(i) : ~calls[k].ok
           THEN "error"
           ELSE "success"
    /\ ~rejected => ItemCalls(i) # { }

\* C16: in the batch download and batch upload tools, once the loop has
\* started, an item that fails (URL rejected, storage exception, status of 300
\* or more) is recorded with status 'error' and nothing else changes course:
\* every item that did not fail is recorded 'success', every item whose URL
\* resolves gets its storage call, the invocation never raises, and it
\* completes with one entry per item.
C16_BatchPartialFailure ==
    (tool \in BatchTools /\ client # "none") =>
        /\ pc \in { "processing", "completed" }
        /\ Len(results) <= NumItems
        /\ \A i \in DOMAIN results : EntryAsItemWent(i, ParseFails(i))
        /\ pc = "completed" => Len(results) = NumItems

\* a completed batch download whose first URL was rejected, whose second
\* storage call failed and whose third item succeeded
C16_Witness ==
    /\ tool = "get_files_by_urls"
    /\ pc = "completed"
    /\ Len(results) >= 3
    /\ ParseFails(1)
    /\ results[1].status = "error"
    /\ \E k \in ItemCalls(2) : ~calls[k].ok
    /\ results[2].status = "error"
    /\ results[3].status = "success"

\* the first of access_key_id, secret_access_key, endpoint, bucket that is
\* missing or empty, or "none"
FirstMissing ==
    IF access_key_id = Empty THEN "access_key_id"
    ELSE IF secret_access_key = Empty THEN "secret_access_key"
    ELSE IF endpoint = Empty THEN "endpoint"
    ELSE IF bucket = Empty THEN "bucket"
    ELSE "none"

\* the four tools that talk to OBS, and the provider's credential validation
ObsInvocations ==
    { "get_file_by_url", "get_files_by_urls", "upload_file",
      "multi_upload_files", "provider" }

\* nothing was done with the storage: no client, no call, no result
NoStorageInteraction ==
    /\ client = "none"
    /\ closes = 0
    /\ calls = << >>
    /\ results = << >>
    /\ blobs = << >>

\* the tool's own parameter is one it rejects: no URL, no file, an empty list
\* or a list of more than ten items
ParameterRejected ==
    CASE tool = "get_file_by_url" -> url = Empty
      [] tool = "get_files_by_urls" ->
             file_urls = << >> \/ Len(file_urls) > 10
      [] tool \in { "upload_file", "multi_upload_files" } ->
             files = << >> \/ Len(files) > 10
      [] OTHER -> FALSE

\* C17 as stated: with one of the four required credentials missing, every
\* OBS tool and the provider raise an error naming the first missing field,
\* and no client is created and no storage call made.
C17_FirstMissingFieldNamed ==
    (tool \in ObsInvocations /\ FirstMissing # "none") =>
        /\ pc = "raised"
        /\ error = MissingField(FirstMissing)
        /\ NoStorageInteraction

\* C17 as amended: with one of the four required credentials missing, every
\* OBS tool and the provider raise before any client is created and before
\* any storage call; the error names the first missing field unless the
\* tool's own parameter is rejected, whose check comes first and whose error
\* is then the one raised.
C17_MissingFieldFatalBeforeStorage ==
    (tool \in ObsInvocations /\ FirstMissing # "none") =>
        /\ pc = "raised"
        /\ NoStorageInteraction
        /\ IF ParameterRejected
           THEN error.kind \in { "empty_input", "too_many" }
           ELSE error = MissingField(FirstMissing)

\* a single upload of a file with the secret key and the endpoint missing is
\* refused for the secret key
C17_Witness ==
    /\ tool = "upload_file"
    /\ files # << >>
    /\ access_key_id # Empty
    /\ secret_access_key = Empty
    /\ endpoint = Empty
    /\ pc = "raised"
    /\ error = MissingField("secret_access_key")
    /\ NoStorageInteraction

\* C18: in every tool invocation each input item gets at most one storage or
\* HTTP call (getObject, putObject, requests.get), a failed call included,
\* and the failure of a call is surfaced in the same invocation: the single
\* tools raise it, the batch tools record the item as 'error'.
C18_NoInternalRetry ==
    /\ \A j, k \in DOMAIN calls : calls[j].item = calls[k].item => j = k
    /\ \A k \in DOMAIN calls :
           ~calls[k].ok =>
               IF tool \in BatchTools
               THEN /\ calls[k].item \in DOMAIN results
                    /\ results[calls[k].item].status = "error"
               ELSE /\ pc = "raised"
                    /\ error.kind \in { "status", "exception" }

\* a completed batch download whose first getObject failed: it was called
\* once, and the next call is the second item's
C18_Witness ==
    /\ tool = "get_files_by_urls"
    /\ pc = "completed"
    /\ Len(calls) >= 2
    /\ calls[1].item = 1
    /\ ~calls[1].ok
    /\ calls[2].item = 2
    /\ results[1].status = "error"

\* the positions that delimit the ';'-separated segments of file_urls_str
SegmentBounds ==
    { 0, Len(file_urls_str) + 1 }
    \cup { i \in DOMAIN file_urls_str : file_urls_str[i] = ";" }

\* the positions of the characters other than ' ' of the segment that
\* starts after position a
SegmentInk(a) ==
    LET b == MinOf({ p \in SegmentBounds : p > a })
    IN  { j \in (a + 1)..(b - 1) : file_urls_str[j] # " " }

\* where the non-blank segments start
NonBlankSegments ==
    { a \in SegmentBounds : a <= Len(file_urls_str) /\ SegmentInk(a) # { } }

\* the i-th of the non-blank segments that start at the positions segs,
\* trimmed
InputUrl(segs, i) ==
    LET a == CHOOSE x \in segs : Cardinality({ y \in segs : y < x }) = i - 1
    IN  SubSeq(file_urls_str, MinOf(SegmentInk(a)), MaxOf(SegmentInk(a)))

\* results has one entry per non-blank segment, in the order of the segments
\* that start at the positions segs
OneEntryPerSegment(segs) ==
    /\ Len(results) = Cardinality(segs)
    /\ \A i \in DOMAIN results : results[i].file_url = InputUrl(segs, i)

\* the entries of results with the given status
WithStatus(st) == { i \in DOMAIN results : results[i].status = st }

\* C19: when a batch download or batch upload completes, results has one
\* entry per input item (per non-blank ';'-separated URL after trimming, or
\* per file) in input order, each 'success' or 'error'; success_count is the
\* number of 'success' entries and success_count + error_count the number of
\* input items; blob messages exist only for 'success' items.
C19_BatchAccounting ==
    (tool \in BatchTools /\ pc = "completed") =>
        /\ \A i \in DOMAIN results : results[i].status \in { "success", "error" }
        /\ summary.success_count = Cardinality(WithStatus("success"))
        /\ summary.error_count = Cardinality(WithStatus("error"))
        /\ summary.success_count + summary.error_count = Len(results)
        /\ \A k \in DOMAIN blobs : blobs[k].item \in WithStatus("success")
        /\ IF tool = "get_files_by_urls"
           THEN OneEntryPerSegment(NonBlankSegments)
           ELSE /\ Len(results) = Len(files)
                /\ \A i \in DOMAIN results :
                       files[i].filename # Empty =>
                           results[i].filename = files[i].filename

\* a completed batch download of ' https://g/b/1.png ; https://h/b/2.png ;
\* https://h/b/3.png;; ': three entries in the order given, the first an
\* error without a blob, the others as their calls went
C19_Witness ==
    /\ tool = "get_files_by_urls"
    /\ pc = "completed"
    /\ file_urls_str = FileUrlsString("first_mismatch", 3)
    /\ Len(results) = 3
    /\ results[1].file_url = MismatchItem(1)
    /\ results[1].status = "error"
    /\ results[2].status = "success"
    /\ results[3].status = "error"
    /\ summary = [ success_count |-> 1, error_count |-> 2 ]
    /\ Len(blobs) = 1
    /\ blobs[1].item = 2

\* the number of items of a batch invocation as the caller gave them: the
\* non-blank ';'-separated segments of file_urls_str, or the files
InputCount ==
    IF tool = "get_files_by_urls"
    THEN Cardinality(NonBlankSegments)
    ELSE Len(files)

\* what the size of a batch of n items does to the invocation
SizeLimitApplied(n) ==
    /\ n > 10 =>
           /\ pc = "raised"
           /\ error.kind = "too_many"
           /\ NoStorageInteraction
    /\ n = 0 =>
           /\ pc = "raised"
           /\ error.kind = "empty_input"
           /\ NoStorageInteraction
    /\ n \in 1..10 =>
           /\ error.kind \notin { "too_many", "empty_input" }
           /\ (FirstMissing = "none" /\ client # "none") =>
                  pc \in { "processing", "completed" }
           /\ pc = "completed" => Len(results) = n

\* C20: a batch invocation with more than 10 items is rejected for that,
\* whatever the credentials, with no client created and no item processed; one
\* with no item (an empty list, a string of separators and blanks) is
\* rejected likewise; one with 1 to 10 items is never rejected for its size
\* and, with complete credentials and a client, goes on to process the items.
C20_BatchSizeLimit ==
    tool \in BatchTools => SizeLimitApplied(InputCount)

\* eleven URLs given to the batch download while access_key_id is missing:
\* refused for their number, not for the credential
C20_Witness ==
    /\ tool = "get_files_by_urls"
    /\ InputCount = 11
    /\ access_key_id = Empty
    /\ pc = "raised"
    /\ error.kind = "too_many"
    /\ NoStorageInteraction

\* the four tools that create an OBS client
ObsTools ==
    { "get_file_by_url", "get_files_by_urls", "upload_file",
      "multi_upload_files" }

\* the invocation has ended, by returning or by raising
Ended == pc \in { "completed", "raised" }

\* C21: in each of the four OBS tools the client, once constructed, is closed
\* exactly once by the time the invocation ends, whether it returns, raises
\* after a storage error or a status of 300 or more, or had items that
\* failed; every getObject/putObject call is made on the open client, so none
\* follows the close; an invocation that ends without a client made no call.
C21_ClientClosedOnce ==
    tool \in ObsTools =>
        /\ closes <= 1
        /\ (client = "closed") <=> (closes = 1)
        /\ \A k \in DOMAIN calls : calls[k].client = "open"
        /\ client = "none" => calls = << >> /\ results = << >>
        /\ Ended => client \in { "none", "closed" }
        /\ client = "closed" => Ended
        /\ (Ended /\ client = "none") =>
               /\ pc = "raised"
               /\ error.kind \notin { "none", "status", "no_content" }

\* a single download whose getObject raised: the client was open at the
\* call and is closed, once, when the error is raised
C21_Witness ==
    /\ tool = "get_file_by_url"
    /\ pc = "raised"
    /\ error.kind = "exception"
    /\ Len(calls) = 1
    /\ calls[1].client = "open"
    /\ ~calls[1].ok
    /\ client = "closed"
    /\ closes = 1

Spec == SpecResolve

=============================================================================
